---- MODULE Spec2Model ----
(***************************************************************************)
(* Model of the per-connection OS assessment state of the OS IMV           *)
(* (src/libimcv/plugins/imv_os/imv_os_state.c): the private record, its   *)
(* setters and getters, and the two message builders get_reason_string    *)
(* and get_remediation_instructions.                                      *)
(*                                                                         *)
(* Pointers to message objects are indices into a per-kind allocation     *)
(* history (reasons, remediations); 0 is the NULL pointer.  Variables     *)
(* whose name ends in _log are history variables: they record the         *)
(* arguments of the calls made so far and are never read by an operation. *)
(***************************************************************************)
EXTENDS Integers, Sequences, FiniteSets, Bags

\* ------------------------------------------------------------------------
\* Bounds of the exploration
\* ------------------------------------------------------------------------

\* number of state-changing calls made on one record
MaxCalls == 3

\* number of set_angel_count calls each context makes in the concurrent model
MaxAngelCalls == 2

\* ------------------------------------------------------------------------
\* Program constants
\* ------------------------------------------------------------------------

\* the NULL pointer to a message object, and the NULL char pointer
NULL == 0
NULL_STR == "NULL"

\* the supported languages with another first entry
languages_DeFirst == <<"de", "en", "pl">>

\* static char* languages[] = { "en", "de", "pl" };
languages == <<"en", "de", "pl">>

\* os_settings_t bits tested by get_remediation_instructions
OS_SETTINGS_FWD_ENABLED == 2^0
OS_SETTINGS_DEFAULT_PWD_ENABLED == 2^1
OS_SETTINGS_NON_MARKET_APPS == 2^2

\* a settings bit that none of the three tests looks at
OS_SETTINGS_OTHER == 2^3

\* os_type_t values (the record is zero-initialised: OS_TYPE_UNKNOWN)
OS_TYPE_UNKNOWN == "OS_TYPE_UNKNOWN"
OS_TYPE_LINUX == "OS_TYPE_LINUX"
OS_TYPE_ANDROID == "OS_TYPE_ANDROID"

\* os_package_state_t values
OS_PACKAGE_STATE_UPDATE == "OS_PACKAGE_STATE_UPDATE"
OS_PACKAGE_STATE_BLACKLIST == "OS_PACKAGE_STATE_BLACKLIST"
OS_PACKAGE_STATE_OK == "OS_PACKAGE_STATE_OK"

\* ------------------------------------------------------------------------
\* Inputs
\* ------------------------------------------------------------------------

\* delta tuples <<count, count_update, count_blacklist, count_ok>> passed to
\* set_count: signed ints
Deltas == {<<1, 1, 0, 0>>, <<1, 0, 1, 0>>, <<1, 0, 0, 1>>, <<2, 1, 1, 0>>,
           <<-1, -1, 0, 0>>, <<-1, 0, -1, 0>>, <<-1, 0, 0, -1>>}

\* arguments of set_os_settings
SettingsArgs == {OS_SETTINGS_FWD_ENABLED, OS_SETTINGS_DEFAULT_PWD_ENABLED,
                 OS_SETTINGS_NON_MARKET_APPS, OS_SETTINGS_OTHER,
                 OS_SETTINGS_FWD_ENABLED + OS_SETTINGS_NON_MARKET_APPS}

\* package names and package states passed to add_bad_package
PackageNames == {"openssl", "telnetd"}
PackageStates == {OS_PACKAGE_STATE_UPDATE, OS_PACKAGE_STATE_BLACKLIST,
                  OS_PACKAGE_STATE_OK}

\* language preference sequences delivered by the language enumerator
LangPrefs == {<< >>, <<"fr", "de", "en">>, <<"fr", "it">>, <<"pl", "de">>}

\* arguments of the bookkeeping setters
ConnStates == {"TNC_CONNECTION_STATE_HANDSHAKE",
               "TNC_CONNECTION_STATE_ACCESS_ISOLATED"}
Recs == {"TNC_IMV_ACTION_RECOMMENDATION_ALLOW",
         "TNC_IMV_ACTION_RECOMMENDATION_ISOLATE"}
Evals == {"TNC_IMV_EVALUATION_RESULT_COMPLIANT",
          "TNC_IMV_EVALUATION_RESULT_NONCOMPLIANT_MINOR"}
MsgLens == {65490}
DeviceIds == {7}

\* arguments of set_info: type, name bytes, version bytes
OsInfos == {<<OS_TYPE_ANDROID, <<"Android">>, <<"4.2.1">> >>,
            <<OS_TYPE_LINUX, <<"Ubuntu">>, <<"12.04">> >>}

\* values of libimcv.plugins.imv-os.remediation_uri (NULL: not configured)
UriSettings == {NULL_STR, "http://remediation.example.org"}

\* ------------------------------------------------------------------------
\* Localized message catalog (imv_lang_string_t tables)
\* ------------------------------------------------------------------------

reason_settings ==
    [en |-> "Improper OS settings were detected",
     de |-> "Unzulaessige OS Einstellungen wurden festgestellt",
     pl |-> "Stwierdzono niewlasciwe ustawienia OS"]

reason_packages ==
    [en |-> "Vulnerable or blacklisted software packages were found",
     de |-> "Schwachstellenbehaftete oder gesperrte Softwarepakete wurden gefunden",
     pl |-> "Znaleziono pakiety podatne na atak lub bedace na czarnej liscie"]

instr_update_packages_title ==
    [en |-> "Software Security Updates",
     de |-> "Software Sicherheitsupdates",
     pl |-> "Aktualizacja softwaru zabezpieczajacego"]

instr_update_packages_descr ==
    [en |-> "Packages with security vulnerabilities were found",
     de |-> "Softwarepakete mit Sicherheitsschwachstellen wurden gefunden",
     pl |-> "Znaleziono pakiety podatne na atak"]

instr_update_packages_header ==
    [en |-> "Please update the following software packages:",
     de |-> "Bitte updaten Sie die folgenden Softwarepakete:",
     pl |-> "Prosze zaktualizowac nastepujace pakiety:"]

instr_remove_packages_title ==
    [en |-> "Blacklisted Software Packages",
     de |-> "Gesperrte Softwarepakete",
     pl |-> "Pakiety bedace na czarnej liscie"]

instr_remove_packages_descr ==
    [en |-> "Dangerous software packages were found",
     de |-> "Gefaehrliche Softwarepakete wurden gefunden",
     pl |-> "Znaleziono niebezpieczne pakiety"]

instr_remove_packages_header ==
    [en |-> "Please remove the following software packages:",
     de |-> "Bitte entfernen Sie die folgenden Softwarepakete:",
     pl |-> "Prosze usunac nastepujace pakiety:"]

instr_fwd_enabled_title ==
    [en |-> "IP Packet Forwarding",
     de |-> "Weiterleitung von IP Paketen",
     pl |-> "Przekazywanie pakietow IP"]

instr_fwd_enabled_descr ==
    [en |-> "Please disable the forwarding of IP packets",
     de |-> "Bitte deaktivieren Sie das Forwarding von IP Paketen",
     pl |-> "Prosze zdezaktywowac przekazywanie pakietow IP"]

instr_default_pwd_enabled_title ==
    [en |-> "Default Password",
     de |-> "Default Passwort",
     pl |-> "Haslo domyslne"]

instr_default_pwd_enabled_descr ==
    [en |-> "Please change the default password",
     de |-> "Bitte aendern Sie das Default Passwort",
     pl |-> "Prosze zmienic domyslne haslo"]

instr_non_market_apps_title ==
    [en |-> "Unknown Software Origin",
     de |-> "Unbekannte Softwareherkunft",
     pl |-> "Nieznane pochodzenie softwaru"]

instr_non_market_apps_descr ==
    [en |-> "Do not allow the installation of apps from unknown sources",
     de |-> "Erlauben Sie nicht die Installation von Apps aus unbekannten Quellen",
     pl |-> "Prosze nie dopuszczac do instalacji Apps z nieznanych zrodel"]

\* a table pointer is the table's name
Catalog ==
    [reason_settings |-> reason_settings,
     reason_packages |-> reason_packages,
     instr_update_packages_title |-> instr_update_packages_title,
     instr_update_packages_descr |-> instr_update_packages_descr,
     instr_update_packages_header |-> instr_update_packages_header,
     instr_remove_packages_title |-> instr_remove_packages_title,
     instr_remove_packages_descr |-> instr_remove_packages_descr,
     instr_remove_packages_header |-> instr_remove_packages_header,
     instr_fwd_enabled_title |-> instr_fwd_enabled_title,
     instr_fwd_enabled_descr |-> instr_fwd_enabled_descr,
     instr_default_pwd_enabled_title |-> instr_default_pwd_enabled_title,
     instr_default_pwd_enabled_descr |-> instr_default_pwd_enabled_descr,
     instr_non_market_apps_title |-> instr_non_market_apps_title,
     instr_non_market_apps_descr |-> instr_non_market_apps_descr]

\* ------------------------------------------------------------------------
\* C operators
\* ------------------------------------------------------------------------

\* !x on an int
LNot(x) == IF x = 0 THEN 1 ELSE 0

RECURSIVE BitAnd(_, _)
\* a & b on unsigned values
BitAnd(a, b) ==
    IF a = 0 \/ b = 0 THEN 0
    ELSE (a % 2) * (b % 2) + 2 * BitAnd(a \div 2, b \div 2)

RECURSIVE BitOr(_, _)
\* a | b on unsigned values
BitOr(a, b) ==
    IF a = 0 THEN b
    ELSE IF b = 0 THEN a
    ELSE (IF a % 2 = 1 \/ b % 2 = 1 THEN 1 ELSE 0)
         + 2 * BitOr(a \div 2, b \div 2)

\* the early-return test with the settings mask left out
NothingToReport_NoSettings(cu, cb, os) ==
    LNot(cu) # 0 /\ LNot(cb) # 0

\* the early-return test of get_reason_string:
\*   !this->count_update && !this->count_blacklist & !this->os_settings
\* (& binds tighter than &&, and both of its operands are 0 or 1)
NothingToReport(cu, cb, os) ==
    LNot(cu) # 0 /\ BitAnd(LNot(cb), LNot(os)) # 0

\* an early-return test that looks at the two package counters only
NothingToRemediate_CountersOnly(cu, cb, os) ==
    LNot(cu) # 0 /\ LNot(cb) # 0

\* the early-return test of get_remediation_instructions, the same expression
\* written a second time:
\*   !this->count_update && !this->count_blacklist & !this->os_settings
NothingToRemediate(cu, cb, os) ==
    LNot(cu) # 0 /\ BitAnd(LNot(cb), LNot(os)) # 0

\* ------------------------------------------------------------------------
\* Collaborators: language selection and the two message objects
\* ------------------------------------------------------------------------

RECURSIVE select_lang_from(_, _)
\* scan of the peer's preferences from position i on
select_lang_from(prefs, i) ==
    IF i > Len(prefs) THEN languages[1]
    ELSE IF \E j \in 1..Len(languages) : languages[j] = prefs[i]
         THEN prefs[i]
         ELSE select_lang_from(prefs, i + 1)

\* imv_lang_string_select_lang(language_enumerator, languages, countof(languages))
imv_lang_string_select_lang(prefs) == select_lang_from(prefs, 1)

\* imv_reason_string_create(lang)
imv_reason_string_create(lang) ==
    [live |-> TRUE, lang |-> lang, reasons |-> << >>, encoding |-> << >>]

\* reason_string->add_reason(reason_string, table)
add_reason(obj, table) == [obj EXCEPT !.reasons = Append(@, table)]

\* reason_string->get_encoding(reason_string): the fragments' texts in the
\* object's language, in append order
reason_get_encoding(obj) ==
    [obj EXCEPT !.encoding =
        [i \in 1..Len(obj.reasons) |-> Catalog[obj.reasons[i]][obj.lang]]]

\* imv_remediation_string_create(as_xml, lang)
imv_remediation_string_create(as_xml, lang) ==
    [live |-> TRUE, as_xml |-> as_xml, lang |-> lang,
     instructions |-> << >>, encoding |-> << >>]

\* remediation_string->add_instruction(remediation_string, title, descr,
\* header, item_list); header and list may be NULL
add_instruction(obj, title, descr, header, has_list, items) ==
    [obj EXCEPT !.instructions =
        Append(@, [title |-> title, descr |-> descr, header |-> header,
                   has_list |-> has_list, items |-> items])]

\* one instruction rendered in language lang
InstructionText(ins, lang) ==
    [title |-> Catalog[ins.title][lang],
     descr |-> Catalog[ins.descr][lang],
     header |-> IF ins.header = NULL_STR THEN "" ELSE Catalog[ins.header][lang],
     items |-> ins.items]

\* remediation_string->get_encoding(remediation_string)
remediation_get_encoding(obj) ==
    [obj EXCEPT !.encoding =
        [i \in 1..Len(obj.instructions) |->
            InstructionText(obj.instructions[i], obj.lang)]]

\* DESTROY_IF(ptr) on an allocation history: the object ptr points to dies
DESTROY_IF(objs, ptr) ==
    IF ptr = NULL THEN objs ELSE [objs EXCEPT ![ptr].live = FALSE]

\* the previous message stays alive when the new one is installed
Replace_NoDestroy(objs, ptr, obj) == Append(objs, obj)

\* DESTROY_IF(this->msg); this->msg = create(...): the allocation history
\* after the builder has replaced the message ptr points to by obj
Replace(objs, ptr, obj) == Append(DESTROY_IF(objs, ptr), obj)

\* ------------------------------------------------------------------------
\* State: struct private_imv_os_state_t, the objects it points to, the
\* caller's output parameters and the history variables
\* ------------------------------------------------------------------------

VARIABLES
    connection_id, state, has_long, has_excl, max_msg_len, rec, eval,
    info, type, name, version,
    remove_packages, update_packages,
    reason_string, remediation_string,
    device_id, count, count_update, count_blacklist, count_ok,
    attribute_request, package_request, os_settings, angel_count,
    reasons,            \* every imv_reason_string_t created so far
    remediations,       \* every imv_remediation_string_t created so far
    info_bufs,          \* every info string allocated so far
    name_bufs,          \* every name chunk allocated so far
    version_bufs,       \* every version chunk allocated so far
    remediation_uri,    \* the configured remediation URI
    called, in_prefs,   \* the last builder called and its language preferences
    result,             \* its return value
    out_lang, out_string, out_uri,   \* the caller's output parameters
    calls,              \* number of state-changing calls made so far
    count_log,          \* bag of the delta tuples passed to set_count
    settings_log,       \* set of the arguments passed to set_os_settings
    pkg_log,            \* sequence of the arguments passed to add_bad_package
    angel_log,          \* sequence of the arguments passed to set_angel_count
    thr,                \* contexts inside set_angel_count (concurrent model)
    pkg_bufs,           \* every package name copy allocated so far
    allocs,             \* is the record alive, are its two lists alive
    rec_log,            \* sequence of the arguments passed to set_recommendation
    info_log            \* sequence of the arguments passed to set_info

fields == <<connection_id, state, has_long, has_excl, max_msg_len, rec, eval,
            info, type, name, version, remove_packages, update_packages,
            reason_string, remediation_string, device_id, count,
            count_update, count_blacklist, count_ok, attribute_request,
            package_request, os_settings, angel_count>>

heap == <<reasons, remediations, info_bufs, name_bufs, version_bufs>>

caller == <<called, in_prefs, result, out_lang, out_string, out_uri>>

logs == <<calls, count_log, settings_log, pkg_log, angel_log>>

owned == <<pkg_bufs, allocs>>

setter_logs == <<rec_log, info_log>>

vars == <<fields, heap, remediation_uri, caller, logs, thr, owned, setter_logs>>

\* the two contexts that may be inside set_angel_count at the same time
Contexts == {"main", "subcheck"}

\* ------------------------------------------------------------------------
\* imv_os_state_create
\* ------------------------------------------------------------------------

Init ==
    /\ connection_id = 1
    /\ state = "TNC_CONNECTION_STATE_CREATE"
    /\ has_long = FALSE
    /\ has_excl = FALSE
    /\ max_msg_len = 0
    /\ rec = "TNC_IMV_ACTION_RECOMMENDATION_NO_RECOMMENDATION"
    /\ eval = "TNC_IMV_EVALUATION_RESULT_DONT_KNOW"
    /\ info = NULL
    /\ type = OS_TYPE_UNKNOWN
    /\ name = NULL
    /\ version = NULL
    /\ remove_packages = << >>
    /\ update_packages = << >>
    /\ reason_string = NULL
    /\ remediation_string = NULL
    /\ device_id = 0
    /\ count = 0
    /\ count_update = 0
    /\ count_blacklist = 0
    /\ count_ok = 0
    /\ attribute_request = FALSE
    /\ package_request = FALSE
    /\ os_settings = 0
    /\ angel_count = 0
    /\ reasons = << >>
    /\ remediations = << >>
    /\ info_bufs = << >>
    /\ name_bufs = << >>
    /\ version_bufs = << >>
    /\ remediation_uri \in UriSettings
    /\ called = "none"
    /\ in_prefs = << >>
    /\ result = FALSE
    /\ out_lang = "unset"
    /\ out_string = [kind |-> "unset", ptr |-> NULL]
    /\ out_uri = "unset"
    /\ calls = 0
    /\ count_log = EmptyBag
    /\ settings_log = {}
    /\ pkg_log = << >>
    /\ angel_log = << >>
    /\ thr = [c \in Contexts |-> [pc |-> "idle", reg |-> 0, start |-> FALSE,
                                  done |-> 0]]
    /\ pkg_bufs = << >>
    /\ allocs = [this |-> TRUE, update_packages |-> TRUE,
                 remove_packages |-> TRUE]
    /\ rec_log = << >>
    /\ info_log = << >>

\* ------------------------------------------------------------------------
\* Getters
\* ------------------------------------------------------------------------

get_count == <<count, count_update, count_blacklist, count_ok>>

get_os_settings == os_settings

get_angel_count == angel_count

get_recommendation == <<rec, eval>>

\* ------------------------------------------------------------------------
\* Evidence setters
\* ------------------------------------------------------------------------

\* this->counter -= delta
AddCount_Subtract(counter, delta) == counter - delta

\* this->counter = delta
AddCount_Assign(counter, delta) == delta

\* this->counter += delta
AddCount(counter, delta) == counter + delta

set_count(d_count, d_update, d_blacklist, d_ok) ==
    /\ allocs.this
    /\ UNCHANGED <<pkg_bufs, allocs, rec_log, info_log>>
    /\ calls < MaxCalls
    /\ calls' = calls + 1
    /\ count' = AddCount(count, d_count)
    /\ count_update' = AddCount(count_update, d_update)
    /\ count_blacklist' = AddCount(count_blacklist, d_blacklist)
    /\ count_ok' = AddCount(count_ok, d_ok)
    /\ count_log' = count_log (+) SetToBag({<<d_count, d_update, d_blacklist, d_ok>>})
    /\ UNCHANGED <<connection_id, state, has_long, has_excl, max_msg_len, rec,
                   eval, info, type, name, version, remove_packages,
                   update_packages, reason_string, remediation_string,
                   device_id, attribute_request, package_request, os_settings,
                   angel_count>>
    /\ UNCHANGED <<heap, remediation_uri, caller, settings_log, pkg_log,
                   angel_log, thr>>

\* this->os_settings = settings
OrSettings_Assign(mask, settings) == settings

\* this->os_settings |= settings
OrSettings(mask, settings) == BitOr(mask, settings)

set_os_settings(settings) ==
    /\ allocs.this
    /\ UNCHANGED <<pkg_bufs, allocs, rec_log, info_log>>
    /\ calls < MaxCalls
    /\ calls' = calls + 1
    /\ os_settings' = OrSettings(os_settings, settings)
    /\ settings_log' = settings_log \cup {settings}
    /\ UNCHANGED <<connection_id, state, has_long, has_excl, max_msg_len, rec,
                   eval, info, type, name, version, remove_packages,
                   update_packages, reason_string, remediation_string,
                   device_id, count, count_update, count_blacklist, count_ok,
                   attribute_request, package_request, angel_count>>
    /\ UNCHANGED <<heap, remediation_uri, caller, count_log, pkg_log,
                   angel_log, thr>>

\* only OS_PACKAGE_STATE_UPDATE goes to the update-needed list
IsRemoveList_NotUpdate(package_state) ==
    package_state # OS_PACKAGE_STATE_UPDATE

\* the list add_bad_package inserts into
IsRemoveList(package_state) == package_state = OS_PACKAGE_STATE_BLACKLIST

\* list->insert_last(list, item)
insert_last(list, item) == Append(list, item)

\* package = strdup(package): a new live copy of the name, owned by the list
\* it is inserted into
strdup(bufs, package, list) ==
    Append(bufs, [live |-> TRUE, bytes |-> package, list |-> list])

add_bad_package(package, package_state) ==
    /\ allocs.this
    /\ UNCHANGED <<allocs, rec_log, info_log>>
    /\ calls < MaxCalls
    /\ calls' = calls + 1
    /\ IF IsRemoveList(package_state)
       THEN /\ remove_packages' = insert_last(remove_packages, package)
            /\ UNCHANGED update_packages
       ELSE /\ update_packages' = insert_last(update_packages, package)
            /\ UNCHANGED remove_packages
    /\ pkg_bufs' = strdup(pkg_bufs, package,
                          IF IsRemoveList(package_state)
                          THEN "remove_packages" ELSE "update_packages")
    /\ pkg_log' = Append(pkg_log, <<package, package_state>>)
    /\ UNCHANGED <<connection_id, state, has_long, has_excl, max_msg_len, rec,
                   eval, info, type, name, version, reason_string,
                   remediation_string, device_id, count, count_update,
                   count_blacklist, count_ok, attribute_request,
                   package_request, os_settings, angel_count>>
    /\ UNCHANGED <<heap, remediation_uri, caller, count_log, settings_log,
                   angel_log, thr>>

\* the decrement clamped at zero
AngelStep_Clamped(n, start) ==
    IF start THEN n + 1 ELSE IF n > 0 THEN n - 1 ELSE 0

\* this->angel_count += start ? 1 : -1
AngelStep(n, start) == n + (IF start THEN 1 ELSE -1)

\* set_angel_count called on the single dispatch thread
set_angel_count(start) ==
    /\ allocs.this
    /\ UNCHANGED <<pkg_bufs, allocs, rec_log, info_log>>
    /\ calls < MaxCalls
    /\ calls' = calls + 1
    /\ angel_count' = AngelStep(angel_count, start)
    /\ angel_log' = Append(angel_log, start)
    /\ UNCHANGED <<connection_id, state, has_long, has_excl, max_msg_len, rec,
                   eval, info, type, name, version, remove_packages,
                   update_packages, reason_string, remediation_string,
                   device_id, count, count_update, count_blacklist, count_ok,
                   attribute_request, package_request, os_settings>>
    /\ UNCHANGED <<heap, remediation_uri, caller, count_log, settings_log,
                   pkg_log, thr>>

\* ------------------------------------------------------------------------
\* Bookkeeping setters and getters
\* ------------------------------------------------------------------------

get_connection_id == connection_id

get_max_msg_len == max_msg_len

get_attribute_request == attribute_request

get_package_request == package_request

get_device_id == device_id

set_flags(long, excl) ==
    /\ allocs.this
    /\ UNCHANGED <<pkg_bufs, allocs, rec_log, info_log>>
    /\ calls < MaxCalls
    /\ calls' = calls + 1
    /\ has_long' = long
    /\ has_excl' = excl
    /\ UNCHANGED <<connection_id, state, max_msg_len, rec, eval, info, type,
                   name, version, remove_packages, update_packages,
                   reason_string, remediation_string, device_id, count,
                   count_update, count_blacklist, count_ok, attribute_request,
                   package_request, os_settings, angel_count>>
    /\ UNCHANGED <<heap, remediation_uri, caller, count_log, settings_log,
                   pkg_log, angel_log, thr>>

set_max_msg_len(len) ==
    /\ allocs.this
    /\ UNCHANGED <<pkg_bufs, allocs, rec_log, info_log>>
    /\ calls < MaxCalls
    /\ calls' = calls + 1
    /\ max_msg_len' = len
    /\ UNCHANGED <<connection_id, state, has_long, has_excl, rec, eval, info,
                   type, name, version, remove_packages, update_packages,
                   reason_string, remediation_string, device_id, count,
                   count_update, count_blacklist, count_ok, attribute_request,
                   package_request, os_settings, angel_count>>
    /\ UNCHANGED <<heap, remediation_uri, caller, count_log, settings_log,
                   pkg_log, angel_log, thr>>

change_state(new_state) ==
    /\ allocs.this
    /\ UNCHANGED <<pkg_bufs, allocs, rec_log, info_log>>
    /\ calls < MaxCalls
    /\ calls' = calls + 1
    /\ state' = new_state
    /\ UNCHANGED <<connection_id, has_long, has_excl, max_msg_len, rec, eval,
                   info, type, name, version, remove_packages, update_packages,
                   reason_string, remediation_string, device_id, count,
                   count_update, count_blacklist, count_ok, attribute_request,
                   package_request, os_settings, angel_count>>
    /\ UNCHANGED <<heap, remediation_uri, caller, count_log, settings_log,
                   pkg_log, angel_log, thr>>

\* set_recommendation storing the recommendation only
set_recommendation_RecOnly(new_rec, new_eval) ==
    /\ allocs.this
    /\ UNCHANGED <<pkg_bufs, allocs, info_log>>
    /\ calls < MaxCalls
    /\ calls' = calls + 1
    /\ rec' = new_rec
    /\ rec_log' = Append(rec_log, <<new_rec, new_eval>>)
    /\ eval' = eval
    /\ UNCHANGED <<connection_id, state, has_long, has_excl, max_msg_len, info,
                   type, name, version, remove_packages, update_packages,
                   reason_string, remediation_string, device_id, count,
                   count_update, count_blacklist, count_ok, attribute_request,
                   package_request, os_settings, angel_count>>
    /\ UNCHANGED <<heap, remediation_uri, caller, count_log, settings_log,
                   pkg_log, angel_log, thr>>

set_recommendation(new_rec, new_eval) ==
    /\ allocs.this
    /\ UNCHANGED <<pkg_bufs, allocs, info_log>>
    /\ calls < MaxCalls
    /\ calls' = calls + 1
    /\ rec' = new_rec
    /\ rec_log' = Append(rec_log, <<new_rec, new_eval>>)
    /\ eval' = new_eval
    /\ UNCHANGED <<connection_id, state, has_long, has_excl, max_msg_len, info,
                   type, name, version, remove_packages, update_packages,
                   reason_string, remediation_string, device_id, count,
                   count_update, count_blacklist, count_ok, attribute_request,
                   package_request, os_settings, angel_count>>
    /\ UNCHANGED <<heap, remediation_uri, caller, count_log, settings_log,
                   pkg_log, angel_log, thr>>

set_attribute_request(set) ==
    /\ allocs.this
    /\ UNCHANGED <<pkg_bufs, allocs, rec_log, info_log>>
    /\ calls < MaxCalls
    /\ calls' = calls + 1
    /\ attribute_request' = set
    /\ UNCHANGED <<connection_id, state, has_long, has_excl, max_msg_len, rec,
                   eval, info, type, name, version, remove_packages,
                   update_packages, reason_string, remediation_string,
                   device_id, count, count_update, count_blacklist, count_ok,
                   package_request, os_settings, angel_count>>
    /\ UNCHANGED <<heap, remediation_uri, caller, count_log, settings_log,
                   pkg_log, angel_log, thr>>

set_package_request(set) ==
    /\ allocs.this
    /\ UNCHANGED <<pkg_bufs, allocs, rec_log, info_log>>
    /\ calls < MaxCalls
    /\ calls' = calls + 1
    /\ package_request' = set
    /\ UNCHANGED <<connection_id, state, has_long, has_excl, max_msg_len, rec,
                   eval, info, type, name, version, remove_packages,
                   update_packages, reason_string, remediation_string,
                   device_id, count, count_update, count_blacklist, count_ok,
                   attribute_request, os_settings, angel_count>>
    /\ UNCHANGED <<heap, remediation_uri, caller, count_log, settings_log,
                   pkg_log, angel_log, thr>>

set_device_id(id) ==
    /\ allocs.this
    /\ UNCHANGED <<pkg_bufs, allocs, rec_log, info_log>>
    /\ calls < MaxCalls
    /\ calls' = calls + 1
    /\ device_id' = id
    /\ UNCHANGED <<connection_id, state, has_long, has_excl, max_msg_len, rec,
                   eval, info, type, name, version, remove_packages,
                   update_packages, reason_string, remediation_string, count,
                   count_update, count_blacklist, count_ok, attribute_request,
                   package_request, os_settings, angel_count>>
    /\ UNCHANGED <<heap, remediation_uri, caller, count_log, settings_log,
                   pkg_log, angel_log, thr>>

\* free(ptr) on an allocation history; free(NULL) does nothing
free(bufs, ptr) ==
    IF ptr = NULL THEN bufs ELSE [bufs EXCEPT ![ptr].live = FALSE]

\* malloc / chunk_clone: a new live buffer holding bytes
alloc(bufs, bytes) == Append(bufs, [live |-> TRUE, bytes |-> bytes])

\* snprintf(this->info, len, "%.*s %.*s", name, version)
InfoString(os_name, os_version) == os_name \o <<" ">> \o os_version

set_info(os_type, os_name, os_version) ==
    /\ allocs.this
    /\ UNCHANGED <<pkg_bufs, allocs, rec_log>>
    /\ calls < MaxCalls
    /\ calls' = calls + 1
    /\ info_bufs' = alloc(free(info_bufs, info),
                          InfoString(os_name, os_version))
    /\ info' = Len(info_bufs) + 1
    /\ type' = os_type
    /\ info_log' = Append(info_log, <<os_type, os_name, os_version>>)
    /\ name_bufs' = alloc(name_bufs, os_name)
    /\ name' = Len(name_bufs) + 1
    /\ version_bufs' = alloc(version_bufs, os_version)
    /\ version' = Len(version_bufs) + 1
    /\ UNCHANGED <<connection_id, state, has_long, has_excl, max_msg_len, rec,
                   eval, remove_packages, update_packages, reason_string,
                   remediation_string, device_id, count, count_update,
                   count_blacklist, count_ok, attribute_request,
                   package_request, os_settings, angel_count>>
    /\ UNCHANGED <<reasons, remediations, remediation_uri, caller, count_log,
                   settings_log, pkg_log, angel_log, thr>>

\* destroy leaving the messages alone
destroy_message_Skip(objs, ptr) == objs

\* DESTROY_IF(this->reason_string); DESTROY_IF(this->remediation_string)
\* in destroy, on the allocation history of one kind of message
destroy_message(objs, ptr) == DESTROY_IF(objs, ptr)

\* list->destroy_function(list, free): every entry of the list is freed
destroy_function(bufs, list) ==
    [i \in 1..Len(bufs) |->
        IF bufs[i].list = list THEN [bufs[i] EXCEPT !.live = FALSE]
        ELSE bufs[i]]

destroy ==
    /\ allocs.this
    /\ calls < MaxCalls
    /\ calls' = calls + 1
    /\ reasons' = destroy_message(reasons, reason_string)
    /\ remediations' = destroy_message(remediations, remediation_string)
    /\ pkg_bufs' = destroy_function(
                       destroy_function(pkg_bufs, "update_packages"),
                       "remove_packages")
    /\ info_bufs' = free(info_bufs, info)
    /\ name_bufs' = free(name_bufs, name)
    /\ version_bufs' = free(version_bufs, version)
    /\ allocs' = [this |-> FALSE, update_packages |-> FALSE,
                  remove_packages |-> FALSE]
    /\ UNCHANGED <<fields, remediation_uri, caller, count_log, settings_log,
                   pkg_log, angel_log, thr, setter_logs>>

\* get_info with all three output pointers given: <<info, type, name, version>>
get_info ==
    <<IF info = NULL THEN NULL_STR ELSE info_bufs[info].bytes,
      type,
      IF name = NULL THEN << >> ELSE name_bufs[name].bytes,
      IF version = NULL THEN << >> ELSE version_bufs[version].bytes>>

\* ------------------------------------------------------------------------
\* Message builders
\* ------------------------------------------------------------------------

\* the reason string without the settings fragment
ReasonFill_PackagesOnly(obj, cu, cb, os) ==
    reason_get_encoding(IF cu # 0 \/ cb # 0
                        THEN add_reason(obj, "reason_packages") ELSE obj)

\* the fragments get_reason_string adds to a new reason string, and its
\* encoding
ReasonFill(obj, cu, cb, os) ==
    LET o1 == IF cu # 0 \/ cb # 0
              THEN add_reason(obj, "reason_packages") ELSE obj
        o2 == IF os # 0
              THEN add_reason(o1, "reason_settings") ELSE o1
    IN  reason_get_encoding(o2)

\* *reason_language = imv_lang_string_select_lang(language_enumerator,
\*                                                  languages, countof(languages))
reason_language(language_enumerator) ==
    imv_lang_string_select_lang(language_enumerator)

\* get_reason_string selecting the language before its early return
get_reason_string_LangFirst(language_enumerator) ==
    /\ allocs.this
    /\ UNCHANGED <<pkg_bufs, allocs, rec_log, info_log>>
    /\ called' = "get_reason_string"
    /\ in_prefs' = language_enumerator
    /\ IF NothingToReport(count_update, count_blacklist, os_settings)
       THEN /\ result' = FALSE
            /\ out_lang' = reason_language(language_enumerator)
            /\ UNCHANGED <<reasons, reason_string, out_string, calls>>
       ELSE /\ calls < MaxCalls
            /\ calls' = calls + 1
            /\ LET lang == reason_language(language_enumerator)
                   obj  == ReasonFill(imv_reason_string_create(lang),
                                      count_update, count_blacklist,
                                      os_settings)
               IN  /\ reasons' = Replace(reasons, reason_string, obj)
                   /\ reason_string' = Len(reasons) + 1
                   /\ out_lang' = lang
                   /\ out_string' = [kind |-> "reason", ptr |-> Len(reasons) + 1]
            /\ result' = TRUE
    /\ UNCHANGED <<connection_id, state, has_long, has_excl, max_msg_len, rec,
                   eval, info, type, name, version, remove_packages,
                   update_packages, remediation_string, device_id, count,
                   count_update, count_blacklist, count_ok, attribute_request,
                   package_request, os_settings, angel_count>>
    /\ UNCHANGED <<remediations, info_bufs, name_bufs, version_bufs,
                   remediation_uri, out_uri, count_log,
                   settings_log, pkg_log, angel_log, thr>>

get_reason_string(language_enumerator) ==
    /\ allocs.this
    /\ UNCHANGED <<pkg_bufs, allocs, rec_log, info_log>>
    /\ called' = "get_reason_string"
    /\ in_prefs' = language_enumerator
    /\ IF NothingToReport(count_update, count_blacklist, os_settings)
       THEN /\ result' = FALSE
            /\ UNCHANGED <<reasons, reason_string, out_lang, out_string,
                           calls>>
       ELSE /\ calls < MaxCalls
            /\ calls' = calls + 1
            /\ LET lang == reason_language(language_enumerator)
                   obj  == ReasonFill(imv_reason_string_create(lang),
                                      count_update, count_blacklist,
                                      os_settings)
               IN  /\ reasons' = Replace(reasons, reason_string, obj)
                   /\ reason_string' = Len(reasons) + 1
                   /\ out_lang' = lang
                   /\ out_string' = [kind |-> "reason", ptr |-> Len(reasons) + 1]
            /\ result' = TRUE
    /\ UNCHANGED <<connection_id, state, has_long, has_excl, max_msg_len, rec,
                   eval, info, type, name, version, remove_packages,
                   update_packages, remediation_string, device_id, count,
                   count_update, count_blacklist, count_ok, attribute_request,
                   package_request, os_settings, angel_count>>
    /\ UNCHANGED <<remediations, info_bufs, name_bufs, version_bufs,
                   remediation_uri, out_uri, count_log,
                   settings_log, pkg_log, angel_log, thr>>

\* each package instruction carrying the list of the other one
PackageInstructions_SwappedLists(obj, cb, cu, remove, update) ==
    LET o1 == IF cb # 0
              THEN add_instruction(obj, "instr_remove_packages_title",
                                   "instr_remove_packages_descr",
                                   "instr_remove_packages_header",
                                   TRUE, update)
              ELSE obj
    IN  IF cu # 0
        THEN add_instruction(o1, "instr_update_packages_title",
                             "instr_update_packages_descr",
                             "instr_update_packages_header", TRUE, remove)
        ELSE o1

\* the update instruction added before the removal instruction
PackageInstructions_UpdateFirst(obj, cb, cu, remove, update) ==
    LET o1 == IF cu # 0
              THEN add_instruction(obj, "instr_update_packages_title",
                                   "instr_update_packages_descr",
                                   "instr_update_packages_header",
                                   TRUE, update)
              ELSE obj
    IN  IF cb # 0
        THEN add_instruction(o1, "instr_remove_packages_title",
                             "instr_remove_packages_descr",
                             "instr_remove_packages_header", TRUE, remove)
        ELSE o1

\* the package instructions of get_remediation_instructions: blacklisted
\* packages to be removed, then packages in need of an update
PackageInstructions(obj, cb, cu, remove, update) ==
    LET o1 == IF cb # 0
              THEN add_instruction(obj, "instr_remove_packages_title",
                                   "instr_remove_packages_descr",
                                   "instr_remove_packages_header",
                                   TRUE, remove)
              ELSE obj
    IN  IF cu # 0
        THEN add_instruction(o1, "instr_update_packages_title",
                             "instr_update_packages_descr",
                             "instr_update_packages_header", TRUE, update)
        ELSE o1

\* the instructions concerning improper OS settings
SettingsInstructions(obj, os) ==
    LET o1 == IF BitAnd(os, OS_SETTINGS_FWD_ENABLED) # 0
              THEN add_instruction(obj, "instr_fwd_enabled_title",
                                   "instr_fwd_enabled_descr", NULL_STR,
                                   FALSE, << >>)
              ELSE obj
        o2 == IF BitAnd(os, OS_SETTINGS_DEFAULT_PWD_ENABLED) # 0
              THEN add_instruction(o1, "instr_default_pwd_enabled_title",
                                   "instr_default_pwd_enabled_descr", NULL_STR,
                                   FALSE, << >>)
              ELSE o1
    IN  IF BitAnd(os, OS_SETTINGS_NON_MARKET_APPS) # 0
        THEN add_instruction(o2, "instr_non_market_apps_title",
                             "instr_non_market_apps_descr", NULL_STR,
                             FALSE, << >>)
        ELSE o2

\* the instructions get_remediation_instructions adds to a new remediation
\* string, and its encoding
RemediationFill(obj, cb, cu, os, remove, update) ==
    remediation_get_encoding(
        SettingsInstructions(
            PackageInstructions(obj, cb, cu, remove, update), os))

\* every remediation string in the structured format
as_xml_Always(os_type) == TRUE

\* the as_xml argument of imv_remediation_string_create:
\*   this->type == OS_TYPE_ANDROID
as_xml(os_type) == os_type = OS_TYPE_ANDROID

\* *lang_code = imv_lang_string_select_lang(language_enumerator,
\*                                           languages, countof(languages))
lang_code(language_enumerator) ==
    imv_lang_string_select_lang(language_enumerator)

get_remediation_instructions(language_enumerator) ==
    /\ allocs.this
    /\ UNCHANGED <<pkg_bufs, allocs, rec_log, info_log>>
    /\ called' = "get_remediation_instructions"
    /\ in_prefs' = language_enumerator
    /\ IF NothingToRemediate(count_update, count_blacklist, os_settings)
       THEN /\ result' = FALSE
            /\ UNCHANGED <<remediations, remediation_string, out_lang,
                           out_string, out_uri, calls>>
       ELSE /\ calls < MaxCalls
            /\ calls' = calls + 1
            /\ LET lang == lang_code(language_enumerator)
                   obj  == RemediationFill(
                               imv_remediation_string_create(
                                   as_xml(type), lang),
                               count_blacklist, count_update, os_settings,
                               remove_packages, update_packages)
               IN  /\ remediations' =
                          Replace(remediations, remediation_string, obj)
                   /\ remediation_string' = Len(remediations) + 1
                   /\ out_lang' = lang
                   /\ out_string' = [kind |-> "remediation",
                                     ptr |-> Len(remediations) + 1]
                   /\ out_uri' = remediation_uri
            /\ result' = TRUE
    /\ UNCHANGED <<connection_id, state, has_long, has_excl, max_msg_len, rec,
                   eval, info, type, name, version, remove_packages,
                   update_packages, reason_string, device_id, count,
                   count_update, count_blacklist, count_ok, attribute_request,
                   package_request, os_settings, angel_count>>
    /\ UNCHANGED <<reasons, info_bufs, name_bufs, version_bufs,
                   remediation_uri, count_log, settings_log,
                   pkg_log, angel_log, thr>>

\* ------------------------------------------------------------------------
\* set_angel_count entered from two contexts at once: the read and the write
\* of this->angel_count += start ? 1 : -1 are separate steps of each context
\* ------------------------------------------------------------------------

angel_read(c, start) ==
    /\ allocs.this
    /\ UNCHANGED <<pkg_bufs, allocs, rec_log, info_log>>
    /\ thr[c].pc = "idle"
    /\ thr[c].done < MaxAngelCalls
    /\ thr' = [thr EXCEPT ![c].pc = "loaded", ![c].reg = angel_count,
                          ![c].start = start]
    /\ angel_log' = Append(angel_log, start)
    /\ UNCHANGED <<fields, heap, remediation_uri, caller, count_log,
                   settings_log, pkg_log, calls>>

angel_write(c) ==
    /\ allocs.this
    /\ UNCHANGED <<pkg_bufs, allocs, rec_log, info_log>>
    /\ thr[c].pc = "loaded"
    /\ angel_count' = AngelStep(thr[c].reg, thr[c].start)
    /\ thr' = [thr EXCEPT ![c].pc = "idle", ![c].done = @ + 1]
    /\ UNCHANGED <<connection_id, state, has_long, has_excl, max_msg_len, rec,
                   eval, info, type, name, version, remove_packages,
                   update_packages, reason_string, remediation_string,
                   device_id, count, count_update, count_blacklist, count_ok,
                   attribute_request, package_request, os_settings>>
    /\ UNCHANGED <<heap, remediation_uri, caller, logs>>

\* ------------------------------------------------------------------------
\* Specifications
\* ------------------------------------------------------------------------

SetCount == \E d \in Deltas : set_count(d[1], d[2], d[3], d[4])

SetOsSettings == \E settings \in SettingsArgs : set_os_settings(settings)

AddBadPackage ==
    \E package \in PackageNames, package_state \in PackageStates :
        add_bad_package(package, package_state)

SetAngelCount == \E start \in BOOLEAN : set_angel_count(start)

SetFlags == \E long \in BOOLEAN, excl \in BOOLEAN : set_flags(long, excl)

SetMaxMsgLen == \E len \in MsgLens : set_max_msg_len(len)

ChangeState == \E new_state \in ConnStates : change_state(new_state)

SetRecommendation ==
    \E new_rec \in Recs, new_eval \in Evals :
        set_recommendation(new_rec, new_eval)

SetAttributeRequest == \E set \in BOOLEAN : set_attribute_request(set)

SetPackageRequest == \E set \in BOOLEAN : set_package_request(set)

SetDeviceId == \E id \in DeviceIds : set_device_id(id)

SetInfo == \E i \in OsInfos : set_info(i[1], i[2], i[3])

Destroy == destroy

GetReasonString == \E prefs \in LangPrefs : get_reason_string(prefs)

GetRemediationInstructions ==
    \E prefs \in LangPrefs : get_remediation_instructions(prefs)

\* all operations on the connection's single dispatch thread
Next ==
    \/ SetCount
    \/ SetOsSettings
    \/ AddBadPackage
    \/ SetAngelCount
    \/ GetReasonString
    \/ GetRemediationInstructions
    \/ SetFlags
    \/ SetMaxMsgLen
    \/ ChangeState
    \/ SetRecommendation
    \/ SetAttributeRequest
    \/ SetPackageRequest
    \/ SetDeviceId
    \/ SetInfo
    \/ Destroy

Spec == Init /\ [][Next]_vars

AngelRead == \E c \in Contexts, start \in BOOLEAN : angel_read(c, start)

AngelWrite == \E c \in Contexts : angel_write(c)

\* set_angel_count called from the dispatch thread and a sub-check context
NextAngel == AngelRead \/ AngelWrite

SpecAngel == Init /\ [][NextAngel]_vars

\* ------------------------------------------------------------------------
\* Properties
\* ------------------------------------------------------------------------

\* a step of the specification is a call of get_reason_string
ReasonCall == \E p \in LangPrefs : get_reason_string(p)

\* a step of the specification is a call of get_remediation_instructions
RemediationCall == \E p \in LangPrefs : get_remediation_instructions(p)

\* bit b of the unsigned value x is set
HasBit(x, b) == (x \div (2 ^ b)) % 2 = 1

\* <<x>> if flag holds, the empty sequence otherwise
Pick(flag, x) == IF flag THEN <<x>> ELSE << >>

\* the titles of the instructions of a remediation string, in order
Titles(obj) == [i \in 1..Len(obj.instructions) |-> obj.instructions[i].title]

\* C1 as stated: every call of get_reason_string returns TRUE if and only if
\* count_update > 0 or count_blacklist > 0 or the settings mask is non-zero.
C1_Original ==
    [][ReasonCall =>
          (result' <=> (count_update > 0 \/ count_blacklist > 0
                        \/ os_settings # 0))]_vars

\* C1 amended: every call of get_reason_string returns TRUE if and only if
\* count_update is non-zero or count_blacklist is non-zero or the settings
\* mask is non-zero (a negative counter also triggers the reason string).
C1_NonZeroTrigger ==
    [][ReasonCall =>
          (result' <=> (count_update # 0 \/ count_blacklist # 0
                        \/ os_settings # 0))]_vars

\* get_reason_string has just returned TRUE on a negative count_update, with
\* no blacklisted package and no settings bit
C1_Witness ==
    /\ called = "get_reason_string"
    /\ result = TRUE
    /\ calls = 2
    /\ Len(reasons) = 1
    /\ count_update = -1
    /\ count_blacklist = 0
    /\ os_settings = 0

\* the instruction titles C2 expects for the given evidence
C2_Expected(cb, cu, os) ==
    Pick(cb > 0, "instr_remove_packages_title")
    \o Pick(cu > 0, "instr_update_packages_title")
    \o Pick(HasBit(os, 0), "instr_fwd_enabled_title")
    \o Pick(HasBit(os, 1), "instr_default_pwd_enabled_title")
    \o Pick(HasBit(os, 2), "instr_non_market_apps_title")

\* C2: when get_remediation_instructions returns TRUE in a state whose
\* counters are non-negative, the instructions of the new remediation string
\* are exactly the subsequence of removal, update, forwarding, default
\* password, non-market apps selected by count_blacklist > 0,
\* count_update > 0 and the three settings bits, in that order.
C2_InstructionOrder ==
    [][(/\ RemediationCall
        /\ result'
        /\ count >= 0 /\ count_update >= 0
        /\ count_blacklist >= 0 /\ count_ok >= 0)
       => /\ remediation_string' # NULL
          /\ Titles(remediations'[remediation_string'])
               = C2_Expected(count_blacklist, count_update, os_settings)]_vars

\* count_blacklist = 1, count_update = 1 and only the default-password bit:
\* the request has just produced removal, update, default password
C2_Witness ==
    /\ called = "get_remediation_instructions"
    /\ result = TRUE
    /\ count_blacklist = 1
    /\ count_update = 1
    /\ os_settings = OS_SETTINGS_DEFAULT_PWD_ENABLED
    /\ remediation_string # NULL
    /\ Titles(remediations[remediation_string])
         = <<"instr_remove_packages_title", "instr_update_packages_title",
             "instr_default_pwd_enabled_title">>

\* C3: get_reason_string returns FALSE when the four counters and the mask
\* are zero; when it returns TRUE the new reason string holds the packages
\* fragment iff count_update or count_blacklist is non-zero, followed by the
\* settings fragment iff the mask is non-zero, at least one fragment in all,
\* and its encoding has one non-empty text per fragment; it returns TRUE with
\* a non-empty payload whenever count_blacklist = 1 or the mask is non-zero.
C3_ReasonFragments ==
    [][ReasonCall =>
        /\ (count = 0 /\ count_update = 0 /\ count_blacklist = 0
            /\ count_ok = 0 /\ os_settings = 0) => ~result'
        /\ (count_blacklist = 1 \/ os_settings # 0) => result'
        /\ result' =>
              LET obj == reasons'[reason_string']
              IN  /\ obj.live
                  /\ obj.reasons =
                       Pick(count_update # 0 \/ count_blacklist # 0,
                            "reason_packages")
                       \o Pick(os_settings # 0, "reason_settings")
                  /\ Len(obj.reasons) >= 1
                  /\ out_string' = [kind |-> "reason", ptr |-> reason_string']
                  /\ Len(obj.encoding) = Len(obj.reasons)
                  /\ \A i \in 1..Len(obj.encoding) : obj.encoding[i] # ""]_vars

\* a reason string with both fragments, packages before settings, has just
\* been returned
C3_Witness ==
    /\ called = "get_reason_string"
    /\ result = TRUE
    /\ count_blacklist = 1
    /\ os_settings # 0
    /\ reason_string # NULL
    /\ reasons[reason_string].reasons = <<"reason_packages", "reason_settings">>
    /\ Len(reasons[reason_string].encoding) = 2

RECURSIVE BagSum(_, _)
\* sum of component k over the tuples of bag b, copies counted
BagSum(b, k) ==
    IF DOMAIN b = {} THEN 0
    ELSE LET e == CHOOSE x \in DOMAIN b : TRUE
             rest == [x \in DOMAIN b \ {e} |-> b[x]]
         IN  b[e] * e[k] + BagSum(rest, k)

\* the four sums of the deltas passed to set_count so far
DeltaSums ==
    <<BagSum(count_log, 1), BagSum(count_log, 2), BagSum(count_log, 3),
      BagSum(count_log, 4)>>

\* C4: the four totals returned by get_count equal the sums of the deltas
\* passed to set_count so far, starting from zero, and only a set_count call
\* changes any of the four counters.
C4_CountersAreDeltaSums ==
    [][/\ get_count = DeltaSums
       /\ get_count' = DeltaSums'
       /\ (get_count' # get_count => count_log' # count_log)]_vars

\* two set_count calls have accumulated
C4_Witness ==
    /\ BagCardinality(count_log) = 2
    /\ get_count = <<3, 2, 1, 0>>

\* pkg_log entry e was routed to the blacklist-removal list
ToRemove(e) == e[2] = OS_PACKAGE_STATE_BLACKLIST

\* pkg_log entry e was routed to the update-needed list
ToUpdate(e) == e[2] # OS_PACKAGE_STATE_BLACKLIST

\* the package names of a sequence of pkg_log entries
NamesOf(entries) == [i \in 1..Len(entries) |-> entries[i][1]]

\* C5: add_bad_package(p, BLACKLIST) appends p at the end of the
\* blacklist-removal list and leaves the update-needed list unchanged, any
\* other package state appends p at the end of the update-needed list and
\* leaves the blacklist-removal list unchanged; each list is the
\* arrival-order sequence of the names routed to it, duplicates kept, and
\* add_bad_package changes none of the four counters.
C5_PackageRouting ==
    [][/\ remove_packages' = NamesOf(SelectSeq(pkg_log', ToRemove))
       /\ update_packages' = NamesOf(SelectSeq(pkg_log', ToUpdate))
       /\ \A p \in PackageNames, st \in PackageStates :
            pkg_log' = Append(pkg_log, <<p, st>>) =>
              /\ get_count' = get_count
              /\ IF st = OS_PACKAGE_STATE_BLACKLIST
                 THEN /\ remove_packages' = Append(remove_packages, p)
                      /\ update_packages' = update_packages
                 ELSE /\ update_packages' = Append(update_packages, p)
                      /\ remove_packages' = remove_packages]_vars

\* three calls: the update-needed list holds its two names in arrival order
\* (an OK package included) and the blacklist-removal list the name that
\* arrived in between
C5_Witness ==
    /\ Len(pkg_log) = 3
    /\ update_packages = <<"telnetd", "openssl">>
    /\ remove_packages = <<"telnetd">>
    /\ pkg_log[1][2] = OS_PACKAGE_STATE_OK
    /\ pkg_log[2] = <<"telnetd", OS_PACKAGE_STATE_BLACKLIST>>

RECURSIVE BitsFrom(_, _)
\* the positions, counted from i, of the bits set in the unsigned value x
BitsFrom(x, i) ==
    IF x = 0 THEN {}
    ELSE (IF x % 2 = 1 THEN {i} ELSE {}) \cup BitsFrom(x \div 2, i + 1)

\* the positions of the bits set in x
BitsOf(x) == BitsFrom(x, 0)

\* C6: get_os_settings returns the bitwise OR of all arguments passed to
\* set_os_settings so far (0 before the first call), and a bit that is set
\* in the mask stays set in every later state, whatever operation is called.
C6_SettingsOrAccumulate ==
    [][/\ BitsOf(get_os_settings) = UNION {BitsOf(a) : a \in settings_log}
       /\ BitsOf(get_os_settings') = UNION {BitsOf(a) : a \in settings_log'}
       /\ BitsOf(get_os_settings) \subseteq BitsOf(get_os_settings')]_vars

\* set_os_settings(forwarding) and set_os_settings(default password), in
\* either order, left both bits in the mask
C6_Witness ==
    /\ settings_log = {OS_SETTINGS_FWD_ENABLED, OS_SETTINGS_DEFAULT_PWD_ENABLED}
    /\ get_os_settings
         = OS_SETTINGS_FWD_ENABLED + OS_SETTINGS_DEFAULT_PWD_ENABLED

\* the positions of the preference sequence p that hold a supported tag
C7_Hits(p) == {i \in 1..Len(p) : p[i] \in {"en", "de", "pl"}}

\* the tag C7 expects for the preference sequence p
C7_Expected(p) ==
    IF C7_Hits(p) = {} THEN "en"
    ELSE p[CHOOSE i \in C7_Hits(p) : \A j \in C7_Hits(p) : i <= j]

\* C7: the language tag returned by get_reason_string and by
\* get_remediation_instructions is the first tag of the preference sequence
\* passed to the call that equals one of en, de, pl, or en if there is none;
\* it is also the language of the message built, whatever language an
\* earlier call resolved.
C7_LanguageSelection ==
    [][\A p \in LangPrefs :
         /\ (get_reason_string(p) /\ result') =>
               /\ out_lang' = C7_Expected(p)
               /\ reasons'[reason_string'].lang = C7_Expected(p)
         /\ (get_remediation_instructions(p) /\ result') =>
               /\ out_lang' = C7_Expected(p)
               /\ remediations'[remediation_string'].lang = C7_Expected(p)
      ]_vars

\* a request with preferences fr, it resolved to en right after a request
\* on the same record had resolved to de
C7_Witness ==
    /\ called = "get_reason_string"
    /\ in_prefs = <<"fr", "it">>
    /\ result = TRUE
    /\ out_lang = "en"
    /\ Len(reasons) = 2
    /\ reasons[1].lang = "de"
    /\ reasons[2].lang = "en"

\* the indices of the live objects of an allocation history
Live(objs) == {i \in 1..Len(objs) : objs[i].live}

\* of the messages in objs, created one per successful request, only the
\* one ptr points to is alive: ptr is NULL iff no request has succeeded, and
\* all but the newest object have been destroyed
OnlyNewestLive(objs, ptr) ==
    /\ Cardinality(Live(objs)) <= 1
    /\ Live(objs) = IF ptr = NULL THEN {} ELSE {ptr}
    /\ ptr = Len(objs)
    /\ Cardinality({i \in 1..Len(objs) : ~objs[i].live})
         = IF Len(objs) = 0 THEN 0 ELSE Len(objs) - 1
    /\ \A i \in 1..Len(objs) : i < Len(objs) => ~objs[i].live

\* C8: at most one reason string and at most one remediation string of the
\* record is alive; every successful request destroys the message of its
\* kind held before, so after n successful requests n-1 messages of that
\* kind have been destroyed and the payload of every earlier request refers
\* to a destroyed object.
C8_OneLiveMessage ==
    allocs.this =>
    /\ OnlyNewestLive(reasons, reason_string)
    /\ OnlyNewestLive(remediations, remediation_string)
    /\ out_string.kind = "reason" =>
          (out_string.ptr # reason_string => ~reasons[out_string.ptr].live)
    /\ out_string.kind = "remediation" =>
          (out_string.ptr # remediation_string
             => ~remediations[out_string.ptr].live)

\* two successful get_reason_string requests: the first message is dead,
\* the second is the one the record holds
C8_Witness ==
    /\ Len(reasons) = 2
    /\ ~reasons[1].live
    /\ reasons[2].live
    /\ reason_string = 2

\* number of entries of the Boolean sequence log that equal b
RECURSIVE CountOf(_, _)
CountOf(log, b) ==
    IF log = << >> THEN 0
    ELSE (IF Head(log) = b THEN 1 ELSE 0) + CountOf(Tail(log), b)

\* C9 as stated: when the set_angel_count calls of the dispatch thread and
\* of the sub-check context have all completed, angel_count equals the
\* number of start=true calls minus the number of start=false calls.
C9_NoLostUpdate ==
    (\A c \in Contexts : thr[c].pc = "idle")
        => angel_count = CountOf(angel_log, TRUE) - CountOf(angel_log, FALSE)

\* C10: on the dispatch thread get_angel_count returns the number of
\* set_angel_count(true) calls minus the number of set_angel_count(false)
\* calls made so far; the count is not bounded below.
C10_AngelCountBalance ==
    get_angel_count = CountOf(angel_log, TRUE) - CountOf(angel_log, FALSE)

\* set_angel_count(false) on a fresh record left the count at -1
C10_Witness ==
    /\ angel_log = <<FALSE>>
    /\ get_angel_count = -1

\* C11 as stated: every operation, set_count with any integer deltas
\* included, leaves each of the four counters greater than or equal to its
\* value before the operation.
C11_Original ==
    [][\A k \in 1..4 : get_count'[k] >= get_count[k]]_vars

\* C11 amended: a counter decreases only in a set_count call whose delta for
\* that counter is negative; every other operation, and set_count with a
\* non-negative delta for the counter, leaves it greater than or equal to
\* its value before.
C11_DecreaseOnlyByNegativeDelta ==
    [][\A k \in 1..4 :
         get_count'[k] < get_count[k] =>
           \E d \in Deltas : /\ count_log' = count_log (+) SetToBag({d})
                             /\ d[k] < 0]_vars

\* set_count(1, 1, 0, 0) followed by set_count(-1, -1, 0, 0): count_update
\* went up to 1 and back down to 0
C11_Witness ==
    /\ BagCardinality(count_log) = 2
    /\ BagIn(<<1, 1, 0, 0>>, count_log)
    /\ BagIn(<<-1, -1, 0, 0>>, count_log)
    /\ count_update = 0
    /\ count = 0

\* the arguments of the most recent set_info call
LastInfo == info_log[Len(info_log)]

\* C12: after any sequence of set_info calls a live record holds exactly one
\* live name buffer, one live version buffer and one live display string, all
\* of the most recent call (display string = name, a space, version; type =
\* the given type); every buffer of an earlier call has been released.
C12_DropThenReplace ==
    (allocs.this /\ info_log # << >>) =>
        /\ Live(info_bufs) = {info}
        /\ Live(name_bufs) = {name}
        /\ Live(version_bufs) = {version}
        /\ get_info = <<LastInfo[2] \o <<" ">> \o LastInfo[3], LastInfo[1],
                        LastInfo[2], LastInfo[3]>>

\* C13: once destroy has run on a record that had at most one set_info call,
\* nothing the record owned is still allocated: no message, no package name of
\* either list, neither list, no info, name or version buffer, and not the
\* record itself; destroy does not look at the angel count.
C13_DestroyReleasesAll ==
    (~allocs.this /\ Len(info_log) <= 1) =>
        /\ Live(reasons) = {}
        /\ Live(remediations) = {}
        /\ Live(pkg_bufs) = {}
        /\ Live(info_bufs) = {}
        /\ Live(name_bufs) = {}
        /\ Live(version_bufs) = {}
        /\ ~allocs.update_packages
        /\ ~allocs.remove_packages

\* destroy has run on a record holding a package name and OS information
C13_Witness ==
    /\ ~allocs.this
    /\ Len(pkg_bufs) = 1
    /\ Len(info_log) = 1
    /\ Len(name_bufs) = 1

\* C14: get_recommendation returns (no recommendation, don't know) as long as
\* set_recommendation was never called, and otherwise exactly the pair given
\* to the most recent set_recommendation call; no other operation changes
\* either member.
C14_RecommendationPair ==
    get_recommendation =
        IF rec_log = << >>
        THEN <<"TNC_IMV_ACTION_RECOMMENDATION_NO_RECOMMENDATION",
               "TNC_IMV_EVALUATION_RESULT_DONT_KNOW">>
        ELSE rec_log[Len(rec_log)]

\* two different pairs were set, then the counters were changed
C14_Witness ==
    /\ Len(rec_log) = 2
    /\ rec_log[1][1] # rec_log[2][1]
    /\ rec_log[1][2] # rec_log[2][2]
    /\ count # 0

\* C15: in every reachable state of a live record the early-return tests of
\* get_reason_string and get_remediation_instructions agree, so the two calls
\* return the same Boolean, and for every preference sequence they select the
\* same language tag.
C15_SameTrigger ==
    allocs.this =>
        /\ NothingToReport(count_update, count_blacklist, os_settings)
             <=> NothingToRemediate(count_update, count_blacklist, os_settings)
        /\ \A prefs \in LangPrefs : reason_language(prefs) = lang_code(prefs)

\* both builders have returned TRUE on the same evidence (a settings mask and
\* no bad package), the second one in German
C15_Witness ==
    /\ called = "get_remediation_instructions"
    /\ result = TRUE
    /\ reason_string # NULL
    /\ remediation_string # NULL
    /\ reasons[reason_string].lang = remediations[remediation_string].lang
    /\ out_lang = "de"
    /\ os_settings # 0
    /\ count_update = 0
    /\ count_blacklist = 0

\* C16: a get_remediation_instructions call that returns TRUE creates its
\* message in the structured (Android) format iff the type recorded at the
\* time of the call is OS_TYPE_ANDROID, and in the generic format otherwise
\* (also for the type a record has before any set_info call); the URI handed
\* out is the configured value, which may be absent, and whether the call
\* returns TRUE does not depend on the URI; a set_info call leaves every
\* message built before it as it is.
C16_FormatFollowsType ==
    [][/\ RemediationCall =>
            result' = (count_update # 0 \/ count_blacklist # 0
                         \/ os_settings # 0)
       /\ (RemediationCall /\ result') =>
            /\ remediations'[remediation_string'].as_xml
                 = (type = OS_TYPE_ANDROID)
            /\ out_uri' = remediation_uri
            /\ out_uri' \in UriSettings
       /\ info_log' # info_log =>
            /\ remediations' = remediations
            /\ remediation_string' = remediation_string]_vars

\* on an Android record with no remediation URI configured the call has
\* returned TRUE with a message in the structured format
C16_Witness ==
    /\ called = "get_remediation_instructions"
    /\ result = TRUE
    /\ type = OS_TYPE_ANDROID
    /\ remediations[remediation_string].as_xml = TRUE
    /\ out_uri = NULL_STR
    /\ remediation_uri = NULL_STR

\* C17: every Remediation message built by a get_remediation_instructions
\* call that returned TRUE contains at least one instruction block, whatever
\* the counters and the settings mask are.
C17_NeverEmptyRemediation ==
    \A i \in 1..Len(remediations) : Len(remediations[i].instructions) >= 1

\* the item lists of the instruction blocks of obj that have the given title
ItemLists(obj, title) ==
    LET sel == SelectSeq(obj.instructions, LAMBDA ins : ins.title = title)
    IN  [i \in 1..Len(sel) |-> sel[i].items]

\* C18 as stated: a get_remediation_instructions call that returns TRUE
\* reports every recorded package name, the removal list in a removal block
\* and the update list in an update block, and a block with an item list is
\* emitted only when that list is non-empty.
C18_Original ==
    [][(RemediationCall /\ result') =>
          LET obj == remediations'[remediation_string']
          IN  /\ remove_packages # << >> =>
                   ItemLists(obj, "instr_remove_packages_title")
                     = <<remove_packages>>
              /\ update_packages # << >> =>
                   ItemLists(obj, "instr_update_packages_title")
                     = <<update_packages>>
              /\ \A i \in 1..Len(obj.instructions) :
                   obj.instructions[i].has_list =>
                     obj.instructions[i].items # << >>]_vars

\* C18 amended: a get_remediation_instructions call that returns TRUE emits
\* exactly one removal block if count_blacklist is non-zero and none
\* otherwise, and that block carries the whole removal list as it is at the
\* time of the call, in insertion order, which may be empty; the same holds
\* for the update block with count_update and the update list. Recorded names
\* whose counter is zero are not reported.
C18_BlocksFollowCounters ==
    [][(RemediationCall /\ result') =>
          LET obj == remediations'[remediation_string']
          IN  /\ ItemLists(obj, "instr_remove_packages_title")
                   = IF count_blacklist # 0 THEN <<remove_packages>>
                     ELSE << >>
              /\ ItemLists(obj, "instr_update_packages_title")
                   = IF count_update # 0 THEN <<update_packages>>
                     ELSE << >>]_vars

\* a blacklisted package was recorded and counted, and the message built
\* afterwards has a removal block with that name
C18_Witness ==
    /\ called = "get_remediation_instructions"
    /\ result = TRUE
    /\ count_blacklist # 0
    /\ remove_packages # << >>
    /\ ItemLists(remediations[remediation_string],
                 "instr_remove_packages_title") = <<remove_packages>>

\* what the record knows about the endpoint, and the buffers behind it
Evidence ==
    <<get_count, remove_packages, update_packages, pkg_bufs, get_os_settings,
      get_recommendation, info, type, name, version, info_bufs, name_bufs,
      version_bufs, get_attribute_request, get_package_request,
      get_device_id, get_angel_count>>

\* C19: a call of get_reason_string or get_remediation_instructions changes
\* none of the counters, package lists, settings mask, recommendation pair,
\* OS identity, request flags, device id or angel count; when it returns TRUE
\* it leaves the message of the other kind as it is, and when it returns
\* FALSE it changes neither message and writes none of its output parameters.
C19_BuildersReadOnly ==
    [][(ReasonCall \/ RemediationCall) =>
          /\ Evidence' = Evidence
          /\ (ReasonCall /\ result') =>
                /\ remediations' = remediations
                /\ remediation_string' = remediation_string
          /\ (RemediationCall /\ result') =>
                /\ reasons' = reasons
                /\ reason_string' = reason_string
          /\ ~result' =>
                /\ reasons' = reasons
                /\ reason_string' = reason_string
                /\ remediations' = remediations
                /\ remediation_string' = remediation_string
                /\ out_lang' = out_lang
                /\ out_string' = out_string
                /\ out_uri' = out_uri]_vars

\* a reason string was built, the counter behind it went back to zero, and
\* the next get_reason_string call returned FALSE with the message still alive
C19_Witness ==
    /\ called = "get_reason_string"
    /\ result = FALSE
    /\ in_prefs # << >>
    /\ reason_string # NULL
    /\ reasons[reason_string].live
    /\ out_string = [kind |-> "reason", ptr |-> reason_string]
    /\ out_lang = "en"
    /\ count_update = 0

====
